---- MODULE Spec2Model ----
(***************************************************************************)
(* Model of src/mitm_addon.py: the mitmproxy addon of Context Lens.  The   *)
(* proxy runtime calls response(flow) once per completed transaction; the  *)
(* handler classifies the transaction, redacts its headers, builds a       *)
(* capture record and forwards it to the ingest endpoint.                  *)
(*                                                                         *)
(* Python strings are TLA+ strings (TLC evaluates Len, \o and SubSeq on    *)
(* them).  Python's None is the string None for optional strings and the   *)
(* empty tuple for optional numbers.                                       *)
(***************************************************************************)
EXTENDS Integers, Sequences, FiniteSets, TLC

\* Number of transactions the proxy runtime hands to the addon in one process.
MaxTransactions == 2

\* The number of calls of response(flow) that are in progress at once.
MaxInFlight == 2

\* Python's None, for a value that is otherwise a string.
None == "<None>"

(***************************************************************************)
(* Python string primitives used by the addon.                             *)
(***************************************************************************)

\* pat in s
Contains(pat, s) ==
    \E i \in 1..(Len(s) - Len(pat) + 1) : SubSeq(s, i, i + Len(pat) - 1) = pat

\* s.startswith(pat)
StartsWith(s, pat) ==
    /\ Len(s) >= Len(pat)
    /\ SubSeq(s, 1, Len(pat)) = pat

\* s.split(sep)[0], for a one-character sep
SplitFirst(s, sep) ==
    IF Contains(sep, s)
    THEN LET i == CHOOSE j \in 1..Len(s) :
                      /\ SubSeq(s, j, j) = sep
                      /\ \A k \in 1..(j - 1) : SubSeq(s, k, k) # sep
         IN  SubSeq(s, 1, i - 1)
    ELSE s

LowerChar(c) ==
    CASE c = "A" -> "a" [] c = "B" -> "b" [] c = "C" -> "c" [] c = "D" -> "d"
      [] c = "E" -> "e" [] c = "F" -> "f" [] c = "G" -> "g" [] c = "H" -> "h"
      [] c = "I" -> "i" [] c = "J" -> "j" [] c = "K" -> "k" [] c = "L" -> "l"
      [] c = "M" -> "m" [] c = "N" -> "n" [] c = "O" -> "o" [] c = "P" -> "p"
      [] c = "Q" -> "q" [] c = "R" -> "r" [] c = "S" -> "s" [] c = "T" -> "t"
      [] c = "U" -> "u" [] c = "V" -> "v" [] c = "W" -> "w" [] c = "X" -> "x"
      [] c = "Y" -> "y" [] c = "Z" -> "z" [] OTHER -> c

RECURSIVE Lower(_)
\* s.lower()
Lower(s) ==
    IF s = "" THEN ""
    ELSE LowerChar(SubSeq(s, 1, 1)) \o Lower(SubSeq(s, 2, Len(s)))

IsSpace(c) == c \in {" ", "\t", "\n", "\r"}

RECURSIVE LStrip(_)
LStrip(s) ==
    IF s # "" /\ IsSpace(SubSeq(s, 1, 1)) THEN LStrip(SubSeq(s, 2, Len(s))) ELSE s

RECURSIVE RStrip(_)
RStrip(s) ==
    IF s # "" /\ IsSpace(SubSeq(s, Len(s), Len(s)))
    THEN RStrip(SubSeq(s, 1, Len(s) - 1))
    ELSE s

\* s.strip()
Strip(s) == RStrip(LStrip(s))

(***************************************************************************)
(* Module constants.                                                       *)
(***************************************************************************)

DEFAULT_INGEST_URL == "http://localhost:4041/api/ingest"

\* (host_substring, path_substring, provider, source), in order.
CAPTURE_PATTERNS ==
    << <<"chatgpt.com", "/backend-api/codex/responses", "chatgpt", "codex">>,
       <<"api.openai.com", "/v1/responses", "openai", None>>,
       <<"api.openai.com", "/v1/chat/completions", "openai", None>>,
       <<"api.anthropic.com", "/v1/messages", "anthropic", None>>,
       <<"generativelanguage.googleapis.com", "/v1", "gemini", None>> >>

\* (path_substring, provider), in order.
CATCHALL_PATH_PATTERNS ==
    << <<"/v1/chat/completions", "openai">>,
       <<"/v1/messages", "anthropic">>,
       <<"/v1/responses", "openai">> >>

(***************************************************************************)
(* match_request and _detect_api_format.                                   *)
(***************************************************************************)

\* Variant of FirstCapturePattern in which the last matching rule wins.
LastCapturePattern(host, path) ==
    LET hits == {i \in 1..Len(CAPTURE_PATTERNS) :
                    /\ Contains(CAPTURE_PATTERNS[i][1], host)
                    /\ Contains(CAPTURE_PATTERNS[i][2], path)}
    IN  IF hits = {} THEN 0 ELSE CHOOSE i \in hits : \A j \in hits : i >= j

\* The first rule of CAPTURE_PATTERNS that matches, 0 when none does.
FirstCapturePattern(host, path) ==
    LET hits == {i \in 1..Len(CAPTURE_PATTERNS) :
                    /\ Contains(CAPTURE_PATTERNS[i][1], host)
                    /\ Contains(CAPTURE_PATTERNS[i][2], path)}
    IN  IF hits = {} THEN 0 ELSE CHOOSE i \in hits : \A j \in hits : i <= j

\* The first rule of CATCHALL_PATH_PATTERNS that matches, 0 when none does.
FirstCatchallPattern(path) ==
    LET hits == {i \in 1..Len(CATCHALL_PATH_PATTERNS) :
                    Contains(CATCHALL_PATH_PATTERNS[i][1], path)}
    IN  IF hits = {} THEN 0 ELSE CHOOSE i \in hits : \A j \in hits : i <= j

\* Variant of CatchallSource that tags with the whole host.
CatchallSourceWholeHost(host) == host

\* The source tag the catch-all derives from the host.
CatchallSource(host) ==
    IF Contains(".", host) THEN SplitFirst(host, ".") ELSE host

\* Variant of match_request that falls back to a default provider instead
\* of returning no match.
match_request_default(host, path) ==
    LET i == FirstCapturePattern(host, path)
        j == FirstCatchallPattern(path)
    IN  IF i # 0 THEN <<CAPTURE_PATTERNS[i][3], CAPTURE_PATTERNS[i][4]>>
        ELSE IF j # 0 THEN <<CATCHALL_PATH_PATTERNS[j][2], CatchallSource(host)>>
        ELSE <<"openai", CatchallSource(host)>>

\* match_request(flow): <<provider, source>>.
match_request(host, path) ==
    LET i == FirstCapturePattern(host, path)
        j == FirstCatchallPattern(path)
    IN  IF i # 0 THEN <<CAPTURE_PATTERNS[i][3], CAPTURE_PATTERNS[i][4]>>
        ELSE IF j # 0 THEN <<CATCHALL_PATH_PATTERNS[j][2], CatchallSource(host)>>
        ELSE <<None, None>>

\* Variant of _detect_api_format that compares the whole path.
detect_api_format_exact(path) ==
    IF path = "/backend-api/codex/responses" THEN "responses"
    ELSE IF path = "/v1/responses" THEN "responses"
    ELSE IF path = "/v1/chat/completions" THEN "chat-completions"
    ELSE IF path = "/v1/messages" THEN "anthropic-messages"
    ELSE "unknown"

\* Variant of _detect_api_format that checks the backend-api segment last.
detect_api_format_backend_last(path) ==
    IF Contains("/responses", path) THEN "responses"
    ELSE IF Contains("/chat/completions", path) THEN "chat-completions"
    ELSE IF Contains("/v1/messages", path) THEN "anthropic-messages"
    ELSE IF Contains("/backend-api/", path) THEN "responses"
    ELSE "unknown"

_detect_api_format(path) ==
    IF Contains("/backend-api/", path) THEN "responses"
    ELSE IF Contains("/responses", path) THEN "responses"
    ELSE IF Contains("/chat/completions", path) THEN "chat-completions"
    ELSE IF Contains("/v1/messages", path) THEN "anthropic-messages"
    ELSE "unknown"

(***************************************************************************)
(* Python values.  A dict is a tuple of <<key, value>> pairs with distinct *)
(* keys, in insertion order.  A value decoded from JSON is a record        *)
(* [k |-> kind, v |-> payload].                                            *)
(***************************************************************************)

\* d[key] = value
DictSet(d, key, value) ==
    IF \E i \in 1..Len(d) : d[i][1] = key
    THEN [i \in 1..Len(d) |-> IF d[i][1] = key THEN <<key, value>> ELSE d[i]]
    ELSE Append(d, <<key, value>>)

\* key in d
DictHas(d, key) == \E i \in 1..Len(d) : d[i][1] = key

\* d.get(key, default)
DictGet(d, key, default) ==
    IF DictHas(d, key)
    THEN d[CHOOSE i \in 1..Len(d) : d[i][1] = key][2]
    ELSE default

\* list(d.keys()) as a set
DictKeys(d) == {d[i][1] : i \in 1..Len(d)}

JNull == [k |-> "null", v |-> <<>>]
JBool(b) == [k |-> "bool", v |-> b]
JInt(n) == [k |-> "int", v |-> n]
JStr(s) == [k |-> "str", v |-> s]
JList(items) == [k |-> "list", v |-> items]
JDict(members) == [k |-> "dict", v |-> members]

(***************************************************************************)
(* json.loads, for documents made of objects, arrays, strings with the     *)
(* escapes \" \\ \/ \n \r \t, integers, true, false and null.               *)
(***************************************************************************)

CharAt(s, i) == IF 1 <= i /\ i <= Len(s) THEN SubSeq(s, i, i) ELSE ""

IsDigit(c) == c \in {"0", "1", "2", "3", "4", "5", "6", "7", "8", "9"}

DigitValue(c) ==
    CASE c = "0" -> 0 [] c = "1" -> 1 [] c = "2" -> 2 [] c = "3" -> 3
      [] c = "4" -> 4 [] c = "5" -> 5 [] c = "6" -> 6 [] c = "7" -> 7
      [] c = "8" -> 8 [] c = "9" -> 9

RECURSIVE SkipWs(_, _)
SkipWs(s, i) == IF IsSpace(CharAt(s, i)) THEN SkipWs(s, i + 1) ELSE i

RECURSIVE ScanDigits(_, _)
\* The index of the first non-digit at or after i.
ScanDigits(s, i) == IF IsDigit(CharAt(s, i)) THEN ScanDigits(s, i + 1) ELSE i

RECURSIVE DigitsToInt(_, _)
DigitsToInt(s, acc) ==
    IF s = "" THEN acc
    ELSE DigitsToInt(SubSeq(s, 2, Len(s)), 10 * acc + DigitValue(SubSeq(s, 1, 1)))

ParseFail == [ok |-> FALSE, val |-> JNull, next |-> 0]

ParseOk(val, next) == [ok |-> TRUE, val |-> val, next |-> next]

\* The character an escape stands for, None for an escape that is not one.
UnescapeChar(c) ==
    CASE c = "\"" -> "\""
      [] c = "\\" -> "\\"
      [] c = "/" -> "/"
      [] c = "n" -> "\n"
      [] c = "r" -> "\r"
      [] c = "t" -> "\t"
      [] OTHER -> None

IsControl(c) == c \in {"\n", "\r", "\t"}

RECURSIVE BackslashRun(_, _)
\* The number of backslashes that stand in a row just before s[j].
BackslashRun(s, j) ==
    IF CharAt(s, j - 1) = "\\" THEN 1 + BackslashRun(s, j - 1) ELSE 0

\* s[j] is the character of an escape: the backslash before it is not itself
\* escaped.
IsEscaped(s, j) == BackslashRun(s, j) % 2 = 1

RECURSIVE ScanClose(_, _)
\* The index of the quote that closes the string whose text starts at s[i],
\* 0 when there is none: the first quote that is not escaped, looked for
\* sixteen characters at a time.
ScanClose(s, i) ==
    LET hi == IF i + 15 < Len(s) THEN i + 15 ELSE Len(s)
        quotes == {j \in i..hi : CharAt(s, j) = "\"" /\ ~IsEscaped(s, j)}
    IN  IF quotes # {} THEN CHOOSE j \in quotes : \A k \in quotes : j <= k
        ELSE IF hi >= Len(s) THEN 0
        ELSE ScanClose(s, hi + 1)

\* Every backslash of t starts an escape and no control character stands
\* unescaped (json.loads rejects both).
TextIsValid(t) ==
    \A j \in 1..Len(t) :
        /\ (CharAt(t, j) = "\\" /\ ~IsEscaped(t, j)) => UnescapeChar(CharAt(t, j + 1)) # None
        /\ ~IsControl(CharAt(t, j))

\* What t[j] adds to the text a string literal stands for.
UnescapeAt(t, j) ==
    IF IsEscaped(t, j) THEN UnescapeChar(CharAt(t, j))
    ELSE IF CharAt(t, j) = "\\" THEN ""
    ELSE CharAt(t, j)

RECURSIVE UnescapeRange(_, _, _)
UnescapeRange(t, lo, hi) ==
    IF lo > hi THEN ""
    ELSE IF lo = hi THEN UnescapeAt(t, lo)
    ELSE LET mid == (lo + hi) \div 2
         IN  UnescapeRange(t, lo, mid) \o UnescapeRange(t, mid + 1, hi)

\* The text a valid string literal stands for.
Unescape(t) == UnescapeRange(t, 1, Len(t))

\* s[i] is the opening quote.
ParseString(s, i) ==
    LET j == ScanClose(s, i + 1)
        t == SubSeq(s, i + 1, j - 1)
    IN  IF j = 0 THEN ParseFail
        ELSE IF ~TextIsValid(t) THEN ParseFail
        ELSE ParseOk(JStr(Unescape(t)), j + 1)

ParseNumber(s, i) ==
    LET start == IF CharAt(s, i) = "-" THEN i + 1 ELSE i
        end == IF CharAt(s, start) = "0" THEN start + 1 ELSE ScanDigits(s, start)
        n == DigitsToInt(SubSeq(s, start, end - 1), 0)
    IN  IF ~IsDigit(CharAt(s, start)) THEN ParseFail
        ELSE ParseOk(JInt(IF start = i THEN n ELSE 0 - n), end)

\* s[i:].startswith(word), with i counted from 1
StartsWithAt(s, i, word) ==
    /\ i + Len(word) - 1 <= Len(s)
    /\ SubSeq(s, i, i + Len(word) - 1) = word

ParseLiteral(s, i) ==
    IF StartsWithAt(s, i, "true") THEN ParseOk(JBool(TRUE), i + 4)
    ELSE IF StartsWithAt(s, i, "false") THEN ParseOk(JBool(FALSE), i + 5)
    ELSE IF StartsWithAt(s, i, "null") THEN ParseOk(JNull, i + 4)
    ELSE ParseFail

RECURSIVE ParseValue(_, _)
RECURSIVE ParseMembers(_, _, _, _)
RECURSIVE ParseElements(_, _, _, _)

\* The value starting at s[i] (no leading whitespace).
ParseValue(s, i) ==
    LET c == CharAt(s, i)
    IN  CASE c = "{" -> ParseMembers(s, SkipWs(s, i + 1), <<>>, TRUE)
          [] c = "[" -> ParseElements(s, SkipWs(s, i + 1), <<>>, TRUE)
          [] c = "\"" -> ParseString(s, i)
          [] c = "-" \/ IsDigit(c) -> ParseNumber(s, i)
          [] OTHER -> ParseLiteral(s, i)

\* The members of an object from s[i] to its closing brace.
ParseMembers(s, i, acc, first) ==
    IF first /\ CharAt(s, i) = "}" THEN ParseOk(JDict(acc), i + 1)
    ELSE IF CharAt(s, i) # "\"" THEN ParseFail
    ELSE LET key == ParseString(s, i)
             colon == SkipWs(s, key.next)
             val == ParseValue(s, SkipWs(s, colon + 1))
             after == SkipWs(s, val.next)
             acc2 == DictSet(acc, key.val.v, val.val)
         IN  IF ~key.ok THEN ParseFail
             ELSE IF CharAt(s, colon) # ":" THEN ParseFail
             ELSE IF ~val.ok THEN ParseFail
             ELSE IF CharAt(s, after) = "," THEN ParseMembers(s, SkipWs(s, after + 1), acc2, FALSE)
             ELSE IF CharAt(s, after) = "}" THEN ParseOk(JDict(acc2), after + 1)
             ELSE ParseFail

\* The elements of an array from s[i] to its closing bracket.
ParseElements(s, i, acc, first) ==
    IF first /\ CharAt(s, i) = "]" THEN ParseOk(JList(acc), i + 1)
    ELSE LET val == ParseValue(s, i)
             after == SkipWs(s, val.next)
             acc2 == Append(acc, val.val)
         IN  IF ~val.ok THEN ParseFail
             ELSE IF CharAt(s, after) = "," THEN ParseElements(s, SkipWs(s, after + 1), acc2, FALSE)
             ELSE IF CharAt(s, after) = "]" THEN ParseOk(JList(acc2), after + 1)
             ELSE ParseFail

\* json.loads(text): ok is FALSE where json.loads raises JSONDecodeError.
json_loads(text) ==
    LET r == ParseValue(text, SkipWs(text, 1))
    IN  IF r.ok /\ SkipWs(text, r.next) = Len(text) + 1 THEN r ELSE ParseFail

(***************************************************************************)
(* json.dumps with its defaults: ", " and ": " as separators, keys in      *)
(* insertion order, text within the ASCII range.                           *)
(***************************************************************************)

DigitChar(d) == SubSeq("0123456789", d + 1, d + 1)

RECURSIVE DigitsOf(_)
DigitsOf(n) == IF n < 10 THEN DigitChar(n) ELSE DigitsOf(n \div 10) \o DigitChar(n % 10)

IntRepr(n) == IF n < 0 THEN "-" \o DigitsOf(0 - n) ELSE DigitsOf(n)

EscapeChar(c) ==
    CASE c = "\"" -> "\\\""
      [] c = "\\" -> "\\\\"
      [] c = "\n" -> "\\n"
      [] c = "\r" -> "\\r"
      [] c = "\t" -> "\\t"
      [] OTHER -> c

RECURSIVE EscapeRange(_, _, _)
EscapeRange(s, lo, hi) ==
    IF lo > hi THEN ""
    ELSE IF lo = hi THEN EscapeChar(CharAt(s, lo))
    ELSE LET mid == (lo + hi) \div 2
         IN  EscapeRange(s, lo, mid) \o EscapeRange(s, mid + 1, hi)

Escape(s) == EscapeRange(s, 1, Len(s))

\* Variant of Quote that writes the text as it is between the quotes.
QuoteRaw(s) == "\"" \o s \o "\""

\* A str as a JSON string.
Quote(s) == "\"" \o Escape(s) \o "\""

RECURSIVE json_dumps(_)
RECURSIVE DumpMembers(_, _)
RECURSIVE DumpElements(_, _)

\* json.dumps(x) for a value made of dict, list, str, int, bool and None.
json_dumps(x) ==
    CASE x.k = "null" -> "null"
      [] x.k = "bool" -> (IF x.v THEN "true" ELSE "false")
      [] x.k = "int" -> IntRepr(x.v)
      [] x.k = "str" -> Quote(x.v)
      [] x.k = "list" -> "[" \o DumpElements(x.v, 1) \o "]"
      [] x.k = "dict" -> "{" \o DumpMembers(x.v, 1) \o "}"

\* The members of a dict from the i-th on.
DumpMembers(d, i) ==
    IF i > Len(d) THEN ""
    ELSE Quote(d[i][1]) \o ": " \o json_dumps(d[i][2])
         \o (IF i < Len(d) THEN ", " ELSE "") \o DumpMembers(d, i + 1)

\* The elements of a list from the i-th on.
DumpElements(l, i) ==
    IF i > Len(l) THEN ""
    ELSE json_dumps(l[i]) \o (IF i < Len(l) THEN ", " ELSE "") \o DumpElements(l, i + 1)

(***************************************************************************)
(* The transactions the proxy runtime supplies (mitmproxy's http.HTTPFlow).*)
(* A message is [raw_content, decodable]: raw_content is None when the     *)
(* body is missing, and get_text() raises ValueError when the body cannot  *)
(* be decoded.  Timestamps are <<microseconds>>, or <<>> for None.         *)
(***************************************************************************)

Methods == {"POST", "GET", "OPTIONS"}

Hosts ==
    {"api.anthropic.com", "chatgpt.com", "api.openai.com",
     "generativelanguage.googleapis.com", "my-gateway.example.com",
     "localhost", "api.anthropic.com.api.openai.com", "example.org"}

Paths ==
    {"/v1/messages", "/backend-api/codex/responses", "/v1/responses",
     "/v1/chat/completions", "/v1beta/models/gemini-pro:generateContent",
     "/backend-api/v1/messages", "/v1/messages?fallback=/v1/chat/completions",
     "/backend-api/v1/chat/completions", "/index.html", "/v1/messages/count_tokens"}

RequestContents ==
    {[raw_content |-> "{\"model\": \"claude-x\"}", decodable |-> TRUE],
     [raw_content |-> "{\"messages\":[{\"role\":\"user\"}],\"max_tokens\":16}", decodable |-> TRUE],
     [raw_content |-> "[1, 2]", decodable |-> TRUE],
     [raw_content |-> "\"hi\"", decodable |-> TRUE],
     [raw_content |-> "model=claude-x", decodable |-> TRUE],
     [raw_content |-> "{\"model\": ", decodable |-> TRUE],
     [raw_content |-> "", decodable |-> TRUE],
     [raw_content |-> "%FF%FE", decodable |-> FALSE],
     [raw_content |-> None, decodable |-> TRUE]}

ResponseContents ==
    {[raw_content |-> "{\"id\": \"msg_1\"}", decodable |-> TRUE],
     [raw_content |-> "event: message_start\ndata: {}\n\n", decodable |-> TRUE],
     [raw_content |-> "data: [DONE]\n\n", decodable |-> TRUE],
     [raw_content |-> " event: late", decodable |-> TRUE],
     [raw_content |-> "", decodable |-> TRUE],
     [raw_content |-> "%1F%8B%00", decodable |-> FALSE],
     [raw_content |-> None, decodable |-> TRUE]}

RequestHeaderLists ==
    {<< <<"content-type", "application/json">>, <<"authorization", "Bearer sk-1">>,
        <<"x-api-key", "k-1">> >>,
     << <<"Content-Type", "application/json">>, <<"Authorization", "Bearer sk-2">>,
        <<"Cookie", "sid=1">>, <<"User-Agent", "codex">> >>,
     << <<"ACCEPT", "*/*">>, <<"X-Api-Key", "k-2">>, <<"anthropic-version", "2023-06-01">>,
        <<"anthropic-beta", "tools">> >>,
     << >>}

ResponseHeaderLists ==
    {<< <<"content-type", "application/json">> >>,
     << <<"Content-Type", "text/event-stream; charset=utf-8">>, <<"x-request-id", "req-1">>,
        <<"Set-Cookie", "sid=1">> >>,
     << <<"content-type", "text/event-stream">>, <<"X-RateLimit-Limit-Requests", "100">>,
        <<"server", "nginx">> >>,
     << <<"openai-processing-ms", "12">>, <<"Content-Type", "text/plain">> >>,
     << >>}

Timings ==
    {<<<<1000000>>, <<2500500>>>>, <<<<>>, <<2500500>>>>, <<<<1000000>>, <<>>>>,
     <<<<0>>, <<999>>>>}

Transaction(method, host, path, reqHeaders, reqContent, respHeaders, respContent, timing) ==
    [request |-> [method |-> method, pretty_host |-> host, path |-> path,
                  headers |-> reqHeaders, raw_content |-> reqContent.raw_content,
                  decodable |-> reqContent.decodable, timestamp_start |-> timing[1]],
     response |-> [status_code |-> 200, headers |-> respHeaders,
                   raw_content |-> respContent.raw_content,
                   decodable |-> respContent.decodable, timestamp_end |-> timing[2]]]

DefaultRequestHeaders == << <<"content-type", "application/json">>, <<"authorization", "Bearer sk-1">>,
                            <<"x-api-key", "k-1">> >>
DefaultRequestContent == [raw_content |-> "{\"model\": \"claude-x\"}", decodable |-> TRUE]
DefaultResponseHeaders == << <<"content-type", "application/json">> >>
DefaultResponseContent == [raw_content |-> "{\"id\": \"msg_1\"}", decodable |-> TRUE]
DefaultTiming == <<<<1000000>>, <<2500500>>>>

\* Every method, host and path, with one body and one set of headers.
RoutingTransactions ==
    {Transaction(m, h, p, DefaultRequestHeaders, DefaultRequestContent,
                 DefaultResponseHeaders, DefaultResponseContent, DefaultTiming) :
        m \in Methods, h \in Hosts, p \in Paths}

\* Every request body, response body and response header list, on one route.
BodyTransactions ==
    {Transaction("POST", "api.anthropic.com", "/v1/messages", DefaultRequestHeaders, rq,
                 rh, rs, DefaultTiming) :
        rq \in RequestContents, rs \in ResponseContents, rh \in ResponseHeaderLists}

\* Every request and response header list and timing, on one route.
HeaderTransactions ==
    {Transaction("POST", "my-gateway.example.com", "/v1/chat/completions", qh,
                 DefaultRequestContent, rh, DefaultResponseContent, t) :
        qh \in RequestHeaderLists, rh \in ResponseHeaderLists, t \in Timings}

Transactions == RoutingTransactions \cup BodyTransactions \cup HeaderTransactions

\* The process environment at start: the values of CONTEXT_LENS_INGEST_URL and
\* CONTEXT_LENS_SESSION_ID, None when a variable is not set.
Environments ==
    {[CONTEXT_LENS_INGEST_URL |-> None, CONTEXT_LENS_SESSION_ID |-> None],
     [CONTEXT_LENS_INGEST_URL |-> None, CONTEXT_LENS_SESSION_ID |-> " sess-1 "],
     [CONTEXT_LENS_INGEST_URL |-> "http://127.0.0.1:9/api/ingest", CONTEXT_LENS_SESSION_ID |-> "  "]}

\* os.environ.get(name, default)
EnvGet(environ, name, default) == IF environ[name] = None THEN default ELSE environ[name]

\* The wall clock, as time.strftime("%Y-%m-%dT%H:%M:%S.000Z", time.gmtime()) formats it.
ClockReadings == {"2026-01-01T00:00:00.000Z", "2026-01-01T00:00:01.000Z"}

\* What urllib.request.urlopen does: it returns, or raises one of these.
UrlopenOutcomes == {"ok", "URLError", "timeout", "HTTPError"}

(***************************************************************************)
(* The steps of response(flow).                                            *)
(***************************************************************************)

\* Variant of MethodAccepted without the method check.
MethodAcceptedAny(flow) == flow.request.method = flow.request.method

\* Variant of MethodAccepted that only turns GET away.
MethodAcceptedExceptGet(flow) == flow.request.method # "GET"

\* flow.request.method != "POST" is false
MethodAccepted(flow) == flow.request.method = "POST"

\* Variant of FlowAfterGetText for a read that consumes the body.
FlowAfterConsumingRead(flow, side) ==
    IF side = "request"
    THEN [flow EXCEPT !.request.raw_content = None]
    ELSE [flow EXCEPT !.response.raw_content = None]

\* The transaction after flow.request.get_text() or flow.response.get_text():
\* get_text decodes a copy and leaves the message as it is.
FlowAfterGetText(flow, side) == flow

\* message.get_text(): the text, None when the body is missing; raised names
\* the exception when it raises.
get_text(message) ==
    IF message.raw_content = None THEN [raised |-> None, text |-> None]
    ELSE IF ~message.decodable THEN [raised |-> "ValueError", text |-> None]
    ELSE [raised |-> None, text |-> message.raw_content]

\* headers.get(name, default) of mitmproxy's case-insensitive Headers
HeadersGet(headers, name, default) ==
    LET hits == {i \in 1..Len(headers) : Lower(headers[i][1]) = Lower(name)}
    IN  IF hits = {} THEN default
        ELSE headers[CHOOSE i \in hits : \A j \in hits : i <= j][2]

\* Variant of ParseRequestBody that goes on with an empty dict when the body
\* is not JSON.
ParseRequestBodyLenient(flow) ==
    LET got == get_text(flow.request)
        doc == json_loads(got.text)
    IN  IF got.raised # None THEN [raised |-> got.raised, request_body |-> JNull]
        ELSE IF got.text = None THEN [raised |-> "TypeError", request_body |-> JNull]
        ELSE IF ~doc.ok THEN [raised |-> None, request_body |-> JDict(<<>>)]
        ELSE [raised |-> None, request_body |-> doc.val]

\* The try block that parses the request body: raised names the exception
\* the except clause caught, None when request_body was bound.
ParseRequestBody(flow) ==
    LET got == get_text(flow.request)
        doc == json_loads(got.text)
    IN  IF got.raised # None THEN [raised |-> got.raised, request_body |-> JNull]
        ELSE IF got.text = None THEN [raised |-> "TypeError", request_body |-> JNull]
        ELSE IF ~doc.ok THEN [raised |-> "JSONDecodeError", request_body |-> JNull]
        ELSE [raised |-> None, request_body |-> doc.val]

\* The try block that reads the response body.
ReadResponseBody(flow) ==
    LET got == get_text(flow.response)
        content_type == HeadersGet(flow.response.headers, "content-type", "")
    IN  IF got.raised # None
        THEN [raised |-> got.raised, response_body |-> "", response_is_streaming |-> FALSE]
        ELSE IF Contains("text/event-stream", content_type)
        THEN [raised |-> None, response_body |-> got.text, response_is_streaming |-> TRUE]
        ELSE IF got.text = None
        THEN [raised |-> "AttributeError", response_body |-> "", response_is_streaming |-> FALSE]
        ELSE IF StartsWith(got.text, "event:")
        THEN [raised |-> None, response_body |-> got.text, response_is_streaming |-> TRUE]
        ELSE [raised |-> None, response_body |-> got.text, response_is_streaming |-> FALSE]

REQUEST_SAFE_HEADERS ==
    {"content-type", "content-encoding", "accept", "user-agent", "anthropic-version",
     "openai-beta", "x-request-id"}

RESPONSE_SAFE_HEADERS ==
    {"content-type", "x-request-id", "x-ratelimit-limit-requests",
     "x-ratelimit-remaining-requests", "x-ratelimit-limit-tokens",
     "x-ratelimit-remaining-tokens", "openai-processing-ms",
     "anthropic-ratelimit-requests-limit", "anthropic-ratelimit-requests-remaining"}

\* Variant of HeaderIsSafe that drops the authorization header and keeps the rest.
HeaderIsSafeDenyList(k, allowed) == Lower(k) # "authorization"

\* Whether the loop keeps the header named k.
HeaderIsSafe(k, allowed) == Lower(k) \in allowed

RECURSIVE SelectHeaders(_, _, _)
\* The loop over headers.items() that fills safe_request_headers or
\* safe_response_headers, starting from the dict safe.
SelectHeaders(headers, allowed, safe) ==
    IF headers = <<>> THEN safe
    ELSE LET k == Head(headers)[1]
             v == Head(headers)[2]
         IN  SelectHeaders(Tail(headers), allowed,
                           IF HeaderIsSafe(k, allowed) THEN DictSet(safe, k, v) ELSE safe)

\* flow.request.pretty_url
pretty_url(request) == "https://" \o request.pretty_host \o request.path

\* int(x) of the quotient n / d: truncation toward zero.
IntTrunc(n, d) == IF n >= 0 THEN n \div d ELSE 0 - ((0 - n) \div d)

\* The truth value of an optional timestamp: None and 0.0 are false.
Truthy(ts) == ts # <<>> /\ ts[1] # 0

\* Variant of total_ms that leaves the difference in whole seconds.
total_ms_seconds(flow) ==
    IF Truthy(flow.response.timestamp_end) /\ Truthy(flow.request.timestamp_start)
    THEN IntTrunc(flow.response.timestamp_end[1] - flow.request.timestamp_start[1], 1000000)
    ELSE 0

\* timings.total_ms, with the timestamps in microseconds.
total_ms(flow) ==
    IF Truthy(flow.response.timestamp_end) /\ Truthy(flow.request.timestamp_start)
    THEN IntTrunc(flow.response.timestamp_end[1] - flow.request.timestamp_start[1], 1000)
    ELSE 0

\* Variant of OrNone that keeps the empty string.
OrEmpty(x) == IF x = None THEN "" ELSE x

\* x or None
OrNone(x) == IF x = "" THEN None ELSE x

\* The capture dict; evaluating it raises TypeError when a raw_content is None.
BuildCapture(flow, provider, source, request_body, resp, session_id, now) ==
    [timestamp |-> now,
     method |-> "POST",
     path |-> flow.request.path,
     source |-> source,
     provider |-> provider,
     apiFormat |-> _detect_api_format(flow.request.path),
     targetUrl |-> pretty_url(flow.request),
     requestHeaders |-> SelectHeaders(flow.request.headers, REQUEST_SAFE_HEADERS, <<>>),
     requestBody |-> request_body,
     requestBytes |-> Len(flow.request.raw_content),
     responseStatus |-> flow.response.status_code,
     responseHeaders |-> SelectHeaders(flow.response.headers, RESPONSE_SAFE_HEADERS, <<>>),
     responseBody |-> resp.response_body,
     responseIsStreaming |-> resp.response_is_streaming,
     responseBytes |-> Len(flow.response.raw_content),
     sessionId |-> OrNone(session_id),
     timings |-> [send_ms |-> 0, wait_ms |-> 0, receive_ms |-> 0, total_ms |-> total_ms(flow)]]

\* A str or None, and a dict of str to str, as the values json.dumps sees.
PyStr(x) == IF x = None THEN JNull ELSE JStr(x)
PyStrDict(d) == JDict([i \in 1..Len(d) |-> <<d[i][1], JStr(d[i][2])>>])

\* The capture dict as json.dumps sees it, keys in the order of lines 150-172.
CaptureValue(capture) ==
    JDict(<< <<"timestamp", PyStr(capture.timestamp)>>,
             <<"method", PyStr(capture.method)>>,
             <<"path", PyStr(capture.path)>>,
             <<"source", PyStr(capture.source)>>,
             <<"provider", PyStr(capture.provider)>>,
             <<"apiFormat", PyStr(capture.apiFormat)>>,
             <<"targetUrl", PyStr(capture.targetUrl)>>,
             <<"requestHeaders", PyStrDict(capture.requestHeaders)>>,
             <<"requestBody", capture.requestBody>>,
             <<"requestBytes", JInt(capture.requestBytes)>>,
             <<"responseStatus", JInt(capture.responseStatus)>>,
             <<"responseHeaders", PyStrDict(capture.responseHeaders)>>,
             <<"responseBody", PyStr(capture.responseBody)>>,
             <<"responseIsStreaming", JBool(capture.responseIsStreaming)>>,
             <<"responseBytes", JInt(capture.responseBytes)>>,
             <<"sessionId", PyStr(capture.sessionId)>>,
             <<"timings", JDict(<< <<"send_ms", JInt(capture.timings.send_ms)>>,
                                   <<"wait_ms", JInt(capture.timings.wait_ms)>>,
                                   <<"receive_ms", JInt(capture.timings.receive_ms)>>,
                                   <<"total_ms", JInt(capture.timings.total_ms)>> >>)>> >>)

BuildRaises(flow) == flow.request.raw_content = None \/ flow.response.raw_content = None

INGEST_TIMEOUT == 5

\* Variant of Deliver that calls urlopen a second time when the first call fails.
DeliverWithRetry(posts, url, data, outcome) ==
    LET call == [url |-> url, data |-> data, content_type |-> "application/json",
                 timeout |-> INGEST_TIMEOUT, outcome |-> outcome]
    IN  IF outcome = "ok" THEN Append(posts, call) ELSE Append(Append(posts, call), call)

\* Variant of Deliver that keeps only the latest call.
DeliverLatestOnly(posts, url, data, outcome) ==
    <<[url |-> url, data |-> data, content_type |-> "application/json",
       timeout |-> INGEST_TIMEOUT, outcome |-> outcome]>>

\* The calls of urllib.request.urlopen the try block makes, appended to posts.
Deliver(posts, url, data, outcome) ==
    Append(posts, [url |-> url, data |-> data, content_type |-> "application/json",
                   timeout |-> INGEST_TIMEOUT, outcome |-> outcome])

ParseFailedLine(e) == [line |-> "[context-lens] Could not parse request body: {e}", args |-> <<e>>]
ReadFailedLine(e) == [line |-> "[context-lens] Could not read response body: {e}", args |-> <<e>>]
CapturedLine(source, provider, model) ==
    [line |-> "[context-lens] Captured {source}/{provider} request (model={model})",
     args |-> <<source, provider, model>>]
IngestFailedLine(e) == [line |-> "[context-lens] Failed to ingest: {e}", args |-> <<e>>]

\* Variant of AfterUrlopen whose except clause does not catch a timeout.
AfterUrlopenUncaughtTimeout(outcome, request_body, source, provider) ==
    IF outcome = "timeout"
    THEN [pc |-> "raised", printed |-> IngestFailedLine(outcome)]
    ELSE IF outcome # "ok"
    THEN [pc |-> "ret187", printed |-> IngestFailedLine(outcome)]
    ELSE IF request_body.k # "dict"
    THEN [pc |-> "ret187", printed |-> IngestFailedLine("AttributeError")]
    ELSE [pc |-> "ret185",
          printed |-> CapturedLine(source, provider,
                                   DictGet(request_body.v, "model", JStr("unknown")))]

\* What follows urlopen in the try block and its except clause: the line
\* printed and the return point.
AfterUrlopen(outcome, request_body, source, provider) ==
    IF outcome # "ok"
    THEN [pc |-> "ret187", printed |-> IngestFailedLine(outcome)]
    ELSE IF request_body.k # "dict"
    THEN [pc |-> "ret187", printed |-> IngestFailedLine("AttributeError")]
    ELSE [pc |-> "ret185",
          printed |-> CapturedLine(source, provider,
                                   DictGet(request_body.v, "model", JStr("unknown")))]

\* What a call of response(flow) that runs alone does with transaction t, up
\* to the forward step: the point it returns from or raises at without a
\* record, or the record it goes on to forward.
HandledAlone(t, session_id, now) ==
    LET m == match_request(t.request.pretty_host, t.request.path)
        parsed == ParseRequestBody(t)
        read == ReadResponseBody(t)
    IN  IF ~MethodAccepted(t) THEN [pc |-> "ret97", capture |-> <<>>]
        ELSE IF m[1] = None \/ m[1] = "" THEN [pc |-> "ret101", capture |-> <<>>]
        ELSE IF parsed.raised # None THEN [pc |-> "ret109", capture |-> <<>>]
        ELSE IF BuildRaises(t) THEN [pc |-> "raised", capture |-> <<>>]
        ELSE [pc |-> "L177",
              capture |-> BuildCapture(t, m[1], m[2], parsed.request_body,
                                       [response_body |-> read.response_body,
                                        response_is_streaming |-> read.response_is_streaming],
                                       session_id, now)]

(***************************************************************************)
(* State.                                                                  *)
(***************************************************************************)

VARIABLES
    environ,                  \* os.environ when the addon is loaded
    INGEST_URL,               \* module global, set when the addon is loaded
    CONTEXT_LENS_SESSION_ID,  \* module global, set when the addon is loaded
    handled,                  \* number of calls of response(flow) so far
    flow,                     \* the transaction of the current call
    pc,                       \* the line the current call is at, or how it ended
    provider, source,         \* locals of response
    request_body,
    response_body, response_is_streaming,
    capture,
    payload,                  \* json.dumps(capture)
    log,                      \* the lines the current call has printed
    posts,                    \* the calls of urlopen the current call has made
    accessed,                 \* the bodies the current call has asked the flow for
    attempts,                 \* per call, the number of calls of urlopen
    delivered,                \* per call, the number of calls of urlopen that returned
    built,                    \* per call, whether the capture dict was built
    calls,                    \* the frames of the calls that run interleaved
    forwarded,                \* the interleaved calls that called urlopen, in order
    arrived                   \* the calls of urlopen the interleaved calls made, in order

vars == <<environ, INGEST_URL, CONTEXT_LENS_SESSION_ID, handled, flow, pc, provider, source,
          request_body, response_body, response_is_streaming, capture, payload, log, posts,
          accessed, attempts, delivered, built, calls, forwarded, arrived>>

config == <<environ, INGEST_URL, CONTEXT_LENS_SESSION_ID>>
history == <<attempts, delivered, built>>
interleaved == <<calls, forwarded, arrived>>
sequential == <<handled, flow, pc, provider, source, request_body, response_body,
                response_is_streaming, capture, payload, log, posts, accessed, history>>

\* A local that is not bound yet.
Unbound == [k |-> "unbound", v |-> <<>>]
UnboundStr == "<unbound>"
NoCapture == <<>>
NoFlow == <<>>

Returned == {"ret97", "ret101", "ret109", "ret185", "ret187"}
Ended == Returned \cup {"raised"}

\* The frame of a call of response(flow) that has not started.
IdleCall ==
    [flow |-> NoFlow, pc |-> "idle", provider |-> UnboundStr, source |-> UnboundStr,
     request_body |-> Unbound, response_body |-> UnboundStr, response_is_streaming |-> FALSE,
     capture |-> NoCapture, payload |-> UnboundStr, log |-> <<>>]

\* The addon is loaded: lines 29-30 read the environment.
Init ==
    /\ environ \in Environments
    /\ INGEST_URL = EnvGet(environ, "CONTEXT_LENS_INGEST_URL", DEFAULT_INGEST_URL)
    /\ CONTEXT_LENS_SESSION_ID = Strip(EnvGet(environ, "CONTEXT_LENS_SESSION_ID", ""))
    /\ handled = 0
    /\ flow = NoFlow
    /\ pc = "idle"
    /\ provider = UnboundStr
    /\ source = UnboundStr
    /\ request_body = Unbound
    /\ response_body = UnboundStr
    /\ response_is_streaming = FALSE
    /\ capture = NoCapture
    /\ payload = UnboundStr
    /\ log = <<>>
    /\ posts = <<>>
    /\ accessed = {}
    /\ attempts = [i \in 1..MaxTransactions |-> 0]
    /\ delivered = [i \in 1..MaxTransactions |-> 0]
    /\ built = [i \in 1..MaxTransactions |-> FALSE]
    /\ calls = [i \in 1..MaxInFlight |-> IdleCall]
    /\ forwarded = <<>>
    /\ arrived = <<>>

\* The runtime calls response(flow) for the next completed transaction.
Invoke ==
    /\ pc \in {"idle"} \cup Ended
    /\ handled < MaxTransactions
    /\ \E t \in Transactions : flow' = t
    /\ handled' = handled + 1
    /\ pc' = "L96"
    /\ provider' = UnboundStr
    /\ source' = UnboundStr
    /\ request_body' = Unbound
    /\ response_body' = UnboundStr
    /\ response_is_streaming' = FALSE
    /\ capture' = NoCapture
    /\ payload' = UnboundStr
    /\ log' = <<>>
    /\ posts' = <<>>
    /\ accessed' = {}
    /\ UNCHANGED <<config, interleaved, history>>

\* Lines 96-97.
CheckMethod ==
    /\ pc = "L96"
    /\ pc' = IF MethodAccepted(flow) THEN "L99" ELSE "ret97"
    /\ UNCHANGED <<config, interleaved, history, payload, handled, flow, provider, source, request_body,
                   response_body, response_is_streaming, capture, log, posts, accessed>>

\* Lines 99-101.
Match ==
    /\ pc = "L99"
    /\ LET m == match_request(flow.request.pretty_host, flow.request.path)
       IN  /\ provider' = m[1]
           /\ source' = m[2]
           /\ pc' = IF m[1] = None \/ m[1] = "" THEN "ret101" ELSE "L104"
    /\ UNCHANGED <<config, interleaved, history, payload, handled, flow, request_body, response_body,
                   response_is_streaming, capture, log, posts, accessed>>

\* Lines 103-109.
ParseRequest ==
    /\ pc = "L104"
    /\ LET r == ParseRequestBody(flow)
       IN  /\ request_body' = IF r.raised = None THEN r.request_body ELSE request_body
           /\ log' = IF r.raised = None THEN log ELSE Append(log, ParseFailedLine(r.raised))
           /\ pc' = IF r.raised = None THEN "L112" ELSE "ret109"
    /\ accessed' = accessed \cup {"request"}
    /\ flow' = FlowAfterGetText(flow, "request")
    /\ UNCHANGED <<config, interleaved, history, payload, handled, provider, source, response_body,
                   response_is_streaming, capture, posts>>

\* Lines 111-125.
ReadResponse ==
    /\ pc = "L112"
    /\ LET r == ReadResponseBody(flow)
       IN  /\ response_body' = r.response_body
           /\ response_is_streaming' = r.response_is_streaming
           /\ log' = IF r.raised = None THEN log ELSE Append(log, ReadFailedLine(r.raised))
    /\ accessed' = accessed \cup {"response"}
    /\ flow' = FlowAfterGetText(flow, "response")
    /\ pc' = "L128"
    /\ UNCHANGED <<config, interleaved, history, payload, handled, provider, source, request_body,
                   capture, posts>>

\* Lines 127-175: the TypeError of len(None) is not caught.
Build ==
    /\ pc = "L128"
    /\ IF BuildRaises(flow)
       THEN /\ pc' = "raised"
            /\ UNCHANGED <<capture, payload, built>>
       ELSE /\ \E now \in ClockReadings :
                  capture' = BuildCapture(flow, provider, source, request_body,
                                          [response_body |-> response_body,
                                           response_is_streaming |-> response_is_streaming],
                                          CONTEXT_LENS_SESSION_ID, now)
            /\ payload' = json_dumps(CaptureValue(capture'))
            /\ built' = [built EXCEPT ![handled] = TRUE]
            /\ pc' = "L177"
    /\ UNCHANGED <<config, interleaved, attempts, delivered, handled, flow, provider, source, request_body,
                   response_body, response_is_streaming, log, posts, accessed>>

\* Lines 177-187.
Forward ==
    /\ pc = "L177"
    /\ \E outcome \in UrlopenOutcomes :
          LET r == AfterUrlopen(outcome, request_body, source, provider)
          IN  /\ posts' = Deliver(posts, INGEST_URL, payload, outcome)
              /\ log' = Append(log, r.printed)
              /\ pc' = r.pc
    /\ attempts' = [attempts EXCEPT ![handled] = @ + Len(posts') - Len(posts)]
    /\ delivered' = [delivered EXCEPT ![handled] =
                        @ + Cardinality({i \in 1..Len(posts') : posts'[i].outcome = "ok"})]
    /\ UNCHANGED <<config, interleaved, built, payload, handled, flow, provider, source, request_body,
                   response_body, response_is_streaming, capture, accessed>>

Next == Invoke \/ CheckMethod \/ Match \/ ParseRequest \/ ReadResponse \/ Build \/ Forward

Spec == Init /\ [][Next]_vars

(***************************************************************************)
(* Several transactions complete while earlier calls of response(flow) are *)
(* still running: each call has its own frame, the module globals are only *)
(* read, and the steps of the calls interleave in any order.  Call i is    *)
(* the i-th call the runtime makes.                                        *)
(***************************************************************************)

InterleavedTransactions ==
    {Transaction("GET", "api.anthropic.com", "/v1/messages", DefaultRequestHeaders,
                 DefaultRequestContent, DefaultResponseHeaders, DefaultResponseContent,
                 DefaultTiming),
     Transaction("POST", "example.org", "/index.html", DefaultRequestHeaders,
                 DefaultRequestContent, DefaultResponseHeaders, DefaultResponseContent,
                 DefaultTiming),
     Transaction("POST", "api.anthropic.com", "/v1/messages", DefaultRequestHeaders,
                 [raw_content |-> "model=claude-x", decodable |-> TRUE],
                 DefaultResponseHeaders, DefaultResponseContent, DefaultTiming),
     Transaction("POST", "api.anthropic.com", "/v1/messages", DefaultRequestHeaders,
                 DefaultRequestContent, DefaultResponseHeaders, DefaultResponseContent,
                 DefaultTiming),
     Transaction("POST", "chatgpt.com", "/backend-api/codex/responses", DefaultRequestHeaders,
                 DefaultRequestContent, DefaultResponseHeaders, DefaultResponseContent,
                 DefaultTiming),
     Transaction("POST", "api.anthropic.com", "/v1/messages", DefaultRequestHeaders,
                 DefaultRequestContent, DefaultResponseHeaders,
                 [raw_content |-> None, decodable |-> TRUE], DefaultTiming)}

InterleavedOutcomes == {"ok", "timeout"}

InitInterleaved ==
    /\ Init
    /\ environ["CONTEXT_LENS_INGEST_URL"] = None
    /\ environ["CONTEXT_LENS_SESSION_ID"] \in {None, " sess-1 "}

\* The runtime makes its next call of response(flow).
StartCall(i) ==
    /\ calls[i].pc = "idle"
    /\ \A j \in 1..(i - 1) : calls[j].pc # "idle"
    /\ \E t \in InterleavedTransactions :
          calls' = [calls EXCEPT ![i] = [IdleCall EXCEPT !.flow = t, !.pc = "L96"]]
    /\ UNCHANGED <<config, sequential, forwarded, arrived>>

\* Lines 96-97 of call i.
CallCheckMethod(i) ==
    /\ calls[i].pc = "L96"
    /\ calls' = [calls EXCEPT ![i].pc = IF MethodAccepted(calls[i].flow) THEN "L99" ELSE "ret97"]
    /\ UNCHANGED <<config, sequential, forwarded, arrived>>

\* Lines 99-101 of call i.
CallMatch(i) ==
    /\ calls[i].pc = "L99"
    /\ LET m == match_request(calls[i].flow.request.pretty_host, calls[i].flow.request.path)
       IN  calls' = [calls EXCEPT ![i].provider = m[1],
                                  ![i].source = m[2],
                                  ![i].pc = IF m[1] = None \/ m[1] = "" THEN "ret101" ELSE "L104"]
    /\ UNCHANGED <<config, sequential, forwarded, arrived>>

\* Lines 103-109 of call i.
CallParseRequest(i) ==
    /\ calls[i].pc = "L104"
    /\ LET r == ParseRequestBody(calls[i].flow)
       IN  calls' = [calls EXCEPT
                        ![i].request_body = IF r.raised = None THEN r.request_body ELSE @,
                        ![i].log = IF r.raised = None THEN @ ELSE Append(@, ParseFailedLine(r.raised)),
                        ![i].flow = FlowAfterGetText(@, "request"),
                        ![i].pc = IF r.raised = None THEN "L112" ELSE "ret109"]
    /\ UNCHANGED <<config, sequential, forwarded, arrived>>

\* Lines 111-125 of call i.
CallReadResponse(i) ==
    /\ calls[i].pc = "L112"
    /\ LET r == ReadResponseBody(calls[i].flow)
       IN  calls' = [calls EXCEPT
                        ![i].response_body = r.response_body,
                        ![i].response_is_streaming = r.response_is_streaming,
                        ![i].log = IF r.raised = None THEN @ ELSE Append(@, ReadFailedLine(r.raised)),
                        ![i].flow = FlowAfterGetText(@, "response"),
                        ![i].pc = "L128"]
    /\ UNCHANGED <<config, sequential, forwarded, arrived>>

\* Lines 127-175 of call i.
CallBuild(i) ==
    /\ calls[i].pc = "L128"
    /\ IF BuildRaises(calls[i].flow)
       THEN calls' = [calls EXCEPT ![i].pc = "raised"]
       ELSE \E now \in ClockReadings :
              LET c == calls[i]
                  built_capture ==
                      BuildCapture(c.flow, c.provider, c.source, c.request_body,
                                   [response_body |-> c.response_body,
                                    response_is_streaming |-> c.response_is_streaming],
                                   CONTEXT_LENS_SESSION_ID, now)
              IN  calls' = [calls EXCEPT ![i].capture = built_capture,
                                         ![i].payload = json_dumps(CaptureValue(built_capture)),
                                         ![i].pc = "L177"]
    /\ UNCHANGED <<config, sequential, forwarded, arrived>>

\* Lines 177-187 of call i.
CallForward(i) ==
    /\ calls[i].pc = "L177"
    /\ \E outcome \in InterleavedOutcomes :
          LET c == calls[i]
              r == AfterUrlopen(outcome, c.request_body, c.source, c.provider)
          IN  /\ arrived' = Deliver(arrived, INGEST_URL, c.payload, outcome)
              /\ calls' = [calls EXCEPT ![i].log = Append(@, r.printed), ![i].pc = r.pc]
    /\ forwarded' = Append(forwarded, i)
    /\ UNCHANGED <<config, sequential>>

NextInterleaved ==
    \E i \in 1..MaxInFlight :
        \/ StartCall(i)
        \/ CallCheckMethod(i)
        \/ CallMatch(i)
        \/ CallParseRequest(i)
        \/ CallReadResponse(i)
        \/ CallBuild(i)
        \/ CallForward(i)

SpecInterleaved == InitInterleaved /\ [][NextInterleaved]_vars

(***************************************************************************)
(* One call of response(flow) in a fresh process, for the records whose    *)
(* serialized form is read back: every request and response body on one   *)
(* route, every header list on another, every timing, and a route with a   *)
(* source.                                                                 *)
(***************************************************************************)

RoundTripTransactions ==
    {Transaction("POST", "api.anthropic.com", "/v1/messages", DefaultRequestHeaders, rq,
                 DefaultResponseHeaders, rs, DefaultTiming) :
        rq \in RequestContents, rs \in ResponseContents}
    \cup
    {Transaction("POST", "my-gateway.example.com", "/v1/chat/completions", qh,
                 DefaultRequestContent, rh, DefaultResponseContent, DefaultTiming) :
        qh \in RequestHeaderLists, rh \in ResponseHeaderLists}
    \cup
    {Transaction("POST", "my-gateway.example.com", "/v1/chat/completions",
                 DefaultRequestHeaders, DefaultRequestContent, DefaultResponseHeaders,
                 DefaultResponseContent, t) : t \in Timings}
    \cup
    {Transaction(m, "chatgpt.com", "/backend-api/codex/responses", DefaultRequestHeaders,
                 DefaultRequestContent, DefaultResponseHeaders, DefaultResponseContent,
                 DefaultTiming) : m \in Methods}

InitRoundTrip == Init /\ environ["CONTEXT_LENS_INGEST_URL"] = None

\* The runtime calls response(flow) once.
InvokeOnce ==
    /\ handled = 0
    /\ Invoke
    /\ flow' \in RoundTripTransactions

NextRoundTrip ==
    InvokeOnce \/ CheckMethod \/ Match \/ ParseRequest \/ ReadResponse \/ Build \/ Forward

SpecRoundTrip == InitRoundTrip /\ [][NextRoundTrip]_vars

\* The state of the current transaction in the per-transaction state machine.
State ==
    CASE pc = "idle" -> "IDLE"
      [] pc \in {"L96", "L99"} -> "UNCLASSIFIED"
      [] pc = "L104" -> "MATCHED"
      [] pc \in {"L112", "L128"} -> "PARSED"
      [] pc = "L177" -> "BUILT"
      [] pc \in {"ret97", "ret101", "ret109"} -> "REJECTED"
      [] pc = "ret185" -> "SENT"
      [] pc = "ret187" -> "SEND_FAILED"
      [] pc = "raised" -> "RAISED"

(***************************************************************************)
(* Properties.                                                             *)
(***************************************************************************)

InCall == pc # "idle"
IsPost == flow.request.method = "POST"
Host == flow.request.pretty_host
Path == flow.request.path

\* The rules of each list that match the current transaction, stated from
\* the lists alone.
SpecificHits ==
    {i \in 1..Len(CAPTURE_PATTERNS) :
        Contains(CAPTURE_PATTERNS[i][1], Host) /\ Contains(CAPTURE_PATTERNS[i][2], Path)}
CatchallHits ==
    {j \in 1..Len(CATCHALL_PATH_PATTERNS) : Contains(CATCHALL_PATH_PATTERNS[j][1], Path)}

\* The match has been decided for the current transaction.
PastMatch == InCall /\ IsPost /\ pc \notin {"L96", "L99"}

\* C1: for a transaction whose method is not POST the handler makes no call
\* to the ingest endpoint and builds no capture record, whatever the host,
\* path, bodies and headers are.
C1_NonPostNoIngest ==
    (InCall /\ ~IsPost) =>
        /\ posts = <<>>
        /\ capture = NoCapture
        /\ attempts[handled] = 0
        /\ ~built[handled]
        /\ pc \in {"L96", "ret97"}

\* A GET that every later step would have captured has been turned away.
C1_Witness ==
    /\ pc = "ret97"
    /\ flow.request.method = "GET"
    /\ SpecificHits # {}
    /\ json_loads(flow.request.raw_content).ok

\* C2: a POST that matches no rule of either list stops at once: the
\* request body is not parsed, the response is not read, no capture record
\* is built, nothing is printed and no call to the ingest endpoint is made.
C2_NoMatchNoEffect ==
    (PastMatch /\ SpecificHits = {} /\ CatchallHits = {}) =>
        /\ pc = "ret101"
        /\ accessed = {}
        /\ request_body = Unbound
        /\ response_body = UnboundStr
        /\ capture = NoCapture
        /\ log = <<>>
        /\ posts = <<>>
        /\ attempts[handled] = 0

\* A POST to a host and path no rule knows has returned at line 101.
C2_Witness ==
    /\ pc = "ret101"
    /\ IsPost
    /\ Host = "example.org"
    /\ Path = "/index.html"

\* Whether the request body of the current transaction is a JSON document.
RequestBodyIsJson ==
    /\ flow.request.raw_content # None
    /\ flow.request.decodable
    /\ json_loads(flow.request.raw_content).ok

\* C3: for a matched POST whose request body is not JSON no capture record
\* is built, no call to the ingest endpoint is made, exactly one line is
\* printed, and the handler returns normally.
C3_ParseFailureSkips ==
    (PastMatch /\ pc # "L104" /\ (SpecificHits # {} \/ CatchallHits # {}) /\ ~RequestBodyIsJson) =>
        /\ pc = "ret109"
        /\ capture = NoCapture
        /\ ~built[handled]
        /\ posts = <<>>
        /\ attempts[handled] = 0
        /\ Len(log) = 1
        /\ log[1].line = "[context-lens] Could not parse request body: {e}"
        /\ "response" \notin accessed

\* A matched POST with a form-encoded body has returned at line 109.
C3_Witness ==
    /\ pc = "ret109"
    /\ IsPost
    /\ SpecificHits # {}
    /\ flow.request.raw_content = "model=claude-x"
    /\ Len(log) = 1

CaptureFields ==
    {"timestamp", "method", "path", "source", "provider", "apiFormat", "targetUrl",
     "requestHeaders", "requestBody", "requestBytes", "responseStatus", "responseHeaders",
     "responseBody", "responseIsStreaming", "responseBytes", "sessionId", "timings"}

\* The last call of urlopen of the current call of the handler failed.
ForwardFailed == posts # <<>> /\ posts[Len(posts)].outcome # "ok"

\* C4: whenever the forward fails (network error, timeout, non-2xx status)
\* the capture record has been built in full, the failure is printed,
\* nothing is raised out of the handler, and it returns in SEND_FAILED.
C4_ForwardFailureSwallowed ==
    (InCall /\ ForwardFailed) =>
        /\ capture # NoCapture
        /\ DOMAIN capture = CaptureFields
        /\ built[handled]
        /\ pc = "ret187"
        /\ State = "SEND_FAILED"
        /\ log # <<>>
        /\ log[Len(log)] = IngestFailedLine(posts[Len(posts)].outcome)

\* The three kinds of failure each end the handler at line 187.
C4_Witness ==
    /\ pc = "ret187"
    /\ ForwardFailed
    /\ posts[1].outcome = "timeout"
    /\ capture # NoCapture
    /\ handled = 2
    /\ built[1] /\ attempts[1] = 1 /\ delivered[1] = 0

\* The calls of the handler that have ended.
EndedCalls == {i \in 1..handled : i < handled \/ pc \in Ended}

\* C5: delivery is at most once.  No call of the handler calls urlopen more
\* than once, it calls it exactly once when it built a capture record and
\* not at all otherwise, and the count of a call that has ended (its
\* attempt failed or not) stays what it was while later transactions are
\* handled.
C5_AtMostOnce ==
    /\ Len(posts) <= 1
    /\ \A i \in 1..MaxTransactions :
          /\ attempts[i] <= 1
          /\ delivered[i] <= attempts[i]
          /\ attempts[i] = 1 => built[i]
          /\ i > handled => attempts[i] = 0
    /\ \A i \in EndedCalls : attempts[i] = (IF built[i] THEN 1 ELSE 0)
    /\ InCall => attempts[handled] = Len(posts)

\* A second transaction has been handled to its end after the forward of
\* the first one failed, and the first one still counts one attempt.
C5_Witness ==
    /\ handled = 2
    /\ pc \in Ended
    /\ built[1] /\ attempts[1] = 1 /\ delivered[1] = 0
    /\ built[2] /\ attempts[2] = 1

SensitiveHeaders ==
    {"authorization", "proxy-authorization", "x-api-key", "api-key", "cookie", "set-cookie"}

\* C6: in every capture record the header names of requestHeaders are, up
\* to case, in the request allow-list and those of responseHeaders in the
\* response allow-list, and no authorization, API-key or cookie header is
\* in either.
C6_HeadersAllowListed ==
    capture # NoCapture =>
        /\ \A k \in DictKeys(capture.requestHeaders) :
              Lower(k) \in REQUEST_SAFE_HEADERS /\ Lower(k) \notin SensitiveHeaders
        /\ \A k \in DictKeys(capture.responseHeaders) :
              Lower(k) \in RESPONSE_SAFE_HEADERS /\ Lower(k) \notin SensitiveHeaders

\* A record was built from headers in mixed case, some kept and some dropped.
C6_Witness ==
    /\ capture # NoCapture
    /\ DictHas(flow.request.headers, "Authorization")
    /\ DictHas(flow.request.headers, "Cookie")
    /\ DictKeys(capture.requestHeaders) = {"Content-Type", "User-Agent"}
    /\ DictHas(flow.response.headers, "Set-Cookie")
    /\ DictKeys(capture.responseHeaders) = {"Content-Type", "x-request-id"}

\* The content-type of the response of the current transaction.
ResponseContentType == HeadersGet(flow.response.headers, "content-type", "")

\* The text of the response body begins with the event-stream sentinel.
ResponseBeginsWithSentinel ==
    /\ flow.response.raw_content # None
    /\ flow.response.decodable
    /\ StartsWith(flow.response.raw_content, "event:")

\* C7: in every capture record responseIsStreaming is true if and only if
\* the response content-type contains text/event-stream or the response
\* body text begins with "event:".
C7_StreamingIff ==
    capture # NoCapture =>
        (capture.responseIsStreaming <=>
            (Contains("text/event-stream", ResponseContentType) \/ ResponseBeginsWithSentinel))

\* C8: match_request returns the provider and source of the first rule of
\* CAPTURE_PATTERNS whose host substring is in the host and whose path
\* substring is in the path; an earlier rule wins over a later one and any
\* specific rule over the catch-all rules.
C8_FirstSpecificRuleWins ==
    (PastMatch /\ SpecificHits # {}) =>
        /\ \E i \in SpecificHits :
              /\ \A j \in SpecificHits : i <= j
              /\ provider = CAPTURE_PATTERNS[i][3]
              /\ source = CAPTURE_PATTERNS[i][4]
        /\ pc # "ret101"
        /\ (Host = "api.anthropic.com" /\ Path = "/v1/messages") =>
              (provider = "anthropic" /\ source = None)

\* Two specific rules with different providers match, and so does the
\* catch-all list; the earlier specific rule has decided.
C8_Witness ==
    /\ pc = "L104"
    /\ SpecificHits = {3, 4}
    /\ CatchallHits # {}
    /\ provider = "openai"
    /\ source = None

\* label is the first dot-delimited label of host.
IsFirstLabel(label, host) ==
    /\ ~Contains(".", label)
    /\ \/ label = host
       \/ StartsWith(host, label \o ".")

\* C9: when no specific rule matches, the first catch-all rule whose path
\* substring is in the path gives the provider and the source is the first
\* dot-delimited label of the host (the whole host when it has no dot);
\* when no catch-all rule matches either there is no match.
C9_CatchallFallback ==
    (PastMatch /\ SpecificHits = {}) =>
        /\ CatchallHits # {} =>
              /\ \E i \in CatchallHits :
                    /\ \A j \in CatchallHits : i <= j
                    /\ provider = CATCHALL_PATH_PATTERNS[i][2]
              /\ IsFirstLabel(source, Host)
              /\ pc # "ret101"
        /\ CatchallHits = {} => (provider = None /\ source = None /\ pc = "ret101")
        /\ (Host = "my-gateway.example.com" /\ Path = "/v1/chat/completions") =>
              (provider = "openai" /\ source = "my-gateway")

\* The catch-all has matched a gateway host on two of its rules, and the
\* earlier one has given the provider.
C9_Witness ==
    /\ pc = "L104"
    /\ Host = "my-gateway.example.com"
    /\ SpecificHits = {}
    /\ CatchallHits = {1, 2}
    /\ provider = "openai"
    /\ source = "my-gateway"

ApiFormats == {"responses", "chat-completions", "anthropic-messages", "unknown"}

\* C10: the api format of a record depends on the path alone and is one of
\* the four formats: "responses" for every path with the backend-api
\* segment whatever else it holds, otherwise what the first of /responses,
\* /chat/completions, /v1/messages in the path gives, "unknown" when none is.
C10_ApiFormatByPath ==
    capture # NoCapture =>
        /\ capture.apiFormat \in ApiFormats
        /\ capture.apiFormat =
              (CASE Contains("/backend-api/", Path) -> "responses"
                 [] ~Contains("/backend-api/", Path) /\ Contains("/responses", Path) -> "responses"
                 [] ~Contains("/backend-api/", Path) /\ ~Contains("/responses", Path)
                      /\ Contains("/chat/completions", Path) -> "chat-completions"
                 [] ~Contains("/backend-api/", Path) /\ ~Contains("/responses", Path)
                      /\ ~Contains("/chat/completions", Path)
                      /\ Contains("/v1/messages", Path) -> "anthropic-messages"
                 [] OTHER -> "unknown")

\* A record was built for a backend-api path that also holds the
\* chat-completions segment.
C10_Witness ==
    /\ capture # NoCapture
    /\ Path = "/backend-api/v1/chat/completions"
    /\ capture.apiFormat = "responses"

\* The current transaction is a POST that matched a rule.
Matched == IsPost /\ (SpecificHits # {} \/ CatchallHits # {})

\* The response body of the current transaction cannot be read: get_text()
\* raises, or there is no body to read.
ResponseUnreadable == flow.response.raw_content = None \/ ~flow.response.decodable

\* C11: when the response body of a matched POST with a JSON request body
\* cannot be read, the handler does not abort: it builds a capture record
\* whose responseBody is the empty string and calls the ingest endpoint
\* exactly once.
C11_UnreadableResponseStillCaptured ==
    (InCall /\ pc \in Ended /\ Matched /\ RequestBodyIsJson /\ ResponseUnreadable) =>
        /\ pc \in Returned
        /\ capture # NoCapture
        /\ capture.responseBody = ""
        /\ attempts[handled] = 1

\* C12: every call of the handler returns normally: no exception leaves it
\* and it ends in REJECTED, SENT or SEND_FAILED.
C12_AlwaysReturnsNormally ==
    /\ pc # "raised"
    /\ pc \in Ended => State \in {"REJECTED", "SENT", "SEND_FAILED"}

\* The state the current transaction has reached in the per-transaction
\* state machine; a call that ended by an exception leaves its transaction
\* in the state it had reached.
TxState ==
    IF pc = "raised"
    THEN (IF capture = NoCapture THEN "PARSED" ELSE "BUILT")
    ELSE State

TxEdges ==
    {<<"UNCLASSIFIED", "MATCHED">>, <<"UNCLASSIFIED", "REJECTED">>,
     <<"MATCHED", "PARSED">>, <<"MATCHED", "REJECTED">>,
     <<"PARSED", "BUILT">>,
     <<"BUILT", "SENT">>, <<"BUILT", "SEND_FAILED">>}

\* Within one transaction the state stays or moves along an edge, and
\* REJECTED is entered from UNCLASSIFIED only for a non-POST or unmatched
\* transaction and from MATCHED only for a request body that is not JSON.
TxStep ==
    (handled' = handled) =>
        /\ TxState' = TxState \/ <<TxState, TxState'>> \in TxEdges
        /\ (TxState = "UNCLASSIFIED" /\ TxState' = "REJECTED") => ~Matched
        /\ (TxState = "MATCHED" /\ TxState' = "REJECTED") => ~RequestBodyIsJson
        /\ (TxState = "UNCLASSIFIED" /\ TxState' = "MATCHED") => Matched
        /\ (TxState = "MATCHED" /\ TxState' = "PARSED") => RequestBodyIsJson

\* A capture record exists exactly from BUILT onwards, and only for a
\* matched POST whose request body is JSON.
TxCapture ==
    InCall =>
        /\ (capture # NoCapture) <=> (TxState \in {"BUILT", "SENT", "SEND_FAILED"})
        /\ (capture # NoCapture) => (Matched /\ RequestBodyIsJson)

\* C14: each transaction follows only UNCLASSIFIED -> MATCHED -> PARSED ->
\* BUILT -> (SENT | SEND_FAILED), with REJECTED entered only from
\* UNCLASSIFIED and MATCHED; REJECTED, SENT and SEND_FAILED have no
\* successor, no state is entered twice, and a capture record exists only
\* from BUILT onwards, for a matched POST whose request body is JSON.
C14_LinearStateMachine == [](TxCapture) /\ [][TxStep]_vars

\* A second transaction was sent after the first one was rejected.
C14_Witness ==
    /\ handled = 2
    /\ ~built[1]
    /\ State = "SENT"
    /\ capture # NoCapture

\* The last call of urlopen of the current call of the handler returned.
ForwardSucceeded == posts # <<>> /\ posts[Len(posts)].outcome = "ok"

\* C15: for every request body that is JSON (a dict with a model, a dict
\* without one, or a list, string or number), once urlopen has returned the
\* handler ends in SENT and prints the success line, with model "unknown"
\* when there is no model to read, never the failure line.
C15_SuccessLineAfterDelivery ==
    (InCall /\ pc \in Ended /\ ForwardSucceeded) =>
        /\ pc = "ret185"
        /\ State = "SENT"
        /\ log[Len(log)].line = "[context-lens] Captured {source}/{provider} request (model={model})"
        /\ (request_body.k # "dict" \/ ~DictHas(request_body.v, "model")) =>
              log[Len(log)].args[3] = JStr("unknown")

\* A timestamp the handler takes as available.
Available(ts) == ts # <<>> /\ ts[1] # 0

\* C16: in every capture record timings.total_ms is the response end
\* timestamp minus the request start timestamp in whole milliseconds when
\* both timestamps are available, and 0 when either is not.
C16_TotalMs ==
    capture # NoCapture =>
        LET start == flow.request.timestamp_start
            end == flow.response.timestamp_end
            ms == capture.timings.total_ms
        IN  IF Available(start) /\ Available(end)
            THEN /\ ms * 1000 <= end[1] - start[1]
                 /\ end[1] - start[1] < (ms + 1) * 1000
            ELSE ms = 0

\* A record was built for a transaction that took 1500.5 milliseconds.
C16_Witness ==
    /\ capture # NoCapture
    /\ flow.request.timestamp_start = <<1000000>>
    /\ flow.response.timestamp_end = <<2500500>>
    /\ capture.timings.total_ms = 1500

\* C20: every transaction matched through the catch-all list gets an api
\* format other than "unknown"; "unknown" occurs only for a transaction
\* matched by a specific rule.
C20_CatchallFormatKnown ==
    capture # NoCapture =>
        /\ SpecificHits = {} => capture.apiFormat \in {"responses", "chat-completions", "anthropic-messages"}
        /\ capture.apiFormat = "unknown" => SpecificHits # {}
        /\ \A j \in CatchallHits : _detect_api_format(CATCHALL_PATH_PATTERNS[j][1]) # "unknown"

\* A record was built through the third catch-all rule alone.
C20_Witness ==
    /\ capture # NoCapture
    /\ SpecificHits = {}
    /\ CatchallHits = {3}
    /\ capture.apiFormat = "responses"

\* C18: the handler never alters the transaction: its method, host, path,
\* headers, bodies, status and timestamps are the same after every step of a
\* call as when the runtime passed it in, on every path.
C18_FlowUnaltered == [][handled' = handled => flow' = flow]_vars

\* A call has read both bodies, built the record and delivered it.
C18_Witness ==
    /\ pc = "ret185"
    /\ accessed = {"request", "response"}
    /\ delivered[handled] = 1

\* The value of CONTEXT_LENS_SESSION_ID in the environment, None when unset.
ConfiguredSessionId == environ["CONTEXT_LENS_SESSION_ID"]

\* C19 as stated: sessionId of a capture record is null exactly when the
\* configured session id is unset or empty, and otherwise equals the
\* configured value.
C19_SessionIdAsConfigured ==
    capture # NoCapture =>
        capture.sessionId =
            (IF ConfiguredSessionId \in {None, ""} THEN None ELSE ConfiguredSessionId)

\* What every record of the process carries as sessionId.
ProcessSessionId ==
    IF ConfiguredSessionId = None \/ Strip(ConfiguredSessionId) = ""
    THEN None
    ELSE Strip(ConfiguredSessionId)

\* C19, amended: sessionId of a capture record is null exactly when the
\* configured session id is unset, empty or only whitespace, and otherwise
\* equals the configured value without its surrounding whitespace; the
\* configuration never changes after the addon is loaded, so every record of
\* one process carries the same sessionId whatever the transactions are.
C19_SessionIdStripped ==
    /\ [](capture # NoCapture => capture.sessionId = ProcessSessionId)
    /\ [][environ' = environ /\ CONTEXT_LENS_SESSION_ID' = CONTEXT_LENS_SESSION_ID]_vars

\* The second record of a process configured with " sess-1 " carries "sess-1".
C19_Witness ==
    /\ handled = 2
    /\ built[1]
    /\ capture # NoCapture
    /\ ConfiguredSessionId = " sess-1 "
    /\ capture.sessionId = "sess-1"

\* The payload of the current call read back with json.loads.
PayloadRead == json_loads(payload)

\* C13: serializing any capture record the handler builds and parsing the
\* text back yields a record identical field for field, with requestBytes,
\* responseBytes and timings.total_ms still the same integers.
C13_JsonRoundTrip ==
    capture # NoCapture =>
        LET read == PayloadRead
        IN  /\ read.ok
            /\ read.val = CaptureValue(capture)
            /\ DictGet(read.val.v, "requestBytes", JNull) = JInt(capture.requestBytes)
            /\ DictGet(read.val.v, "responseBytes", JNull) = JInt(capture.responseBytes)
            /\ DictGet(DictGet(read.val.v, "timings", JNull).v, "total_ms", JNull)
                  = JInt(capture.timings.total_ms)
            /\ \A i \in 1..Len(posts) : posts[i].data = payload

\* A record whose response body holds quotes and line ends, whose source and
\* sessionId are null and whose total_ms is not 0 was serialized and sent.
C13_Witness ==
    /\ pc = "ret185"
    /\ Contains("\"", capture.responseBody)
    /\ capture.source = None
    /\ capture.sessionId = None
    /\ capture.timings.total_ms = 1500
    /\ capture.requestBytes > 0
    /\ PayloadRead.ok

\* HandledAlone is what the calls of Spec, which run one after the other, do.
HandledAloneIsSequential ==
    (InCall /\ pc \in Ended \cup {"L177"}) =>
        \E now \in ClockReadings :
            LET alone == HandledAlone(flow, CONTEXT_LENS_SESSION_ID, now)
            IN  /\ alone.capture = capture
                /\ alone.pc = (IF pc \in {"ret185", "ret187"} THEN "L177" ELSE pc)

\* The interleaved calls that have passed the forward step.
PastForward == {i \in 1..MaxInFlight : calls[i].pc \in {"ret185", "ret187"}}

\* C17: however the steps of the calls for several transactions interleave,
\* each call rejects or builds as a call that runs alone does, with the same
\* capture record up to its timestamp; every call that built a record makes
\* one call of urlopen, with its own record, and no other call of urlopen is
\* made, so only the order of arrival depends on the interleaving.
C17_Isolation ==
    /\ \A i \in 1..MaxInFlight :
          calls[i].pc \in Ended \cup {"L177"} =>
              \E now \in ClockReadings :
                  LET alone == HandledAlone(calls[i].flow, CONTEXT_LENS_SESSION_ID, now)
                  IN  /\ alone.capture = calls[i].capture
                      /\ alone.pc = (IF i \in PastForward THEN "L177" ELSE calls[i].pc)
    /\ Len(arrived) = Cardinality(PastForward)
    /\ Len(forwarded) = Len(arrived)
    /\ \A i \in PastForward : Cardinality({k \in 1..Len(forwarded) : forwarded[k] = i}) = 1
    /\ \A k \in 1..Len(forwarded) :
          /\ forwarded[k] \in PastForward
          /\ k <= Len(arrived) => arrived[k].data = calls[forwarded[k]].payload
    /\ \A i \in 1..MaxInFlight :
          (calls[i].pc \in Ended /\ calls[i].capture # NoCapture) => i \in PastForward

\* The record of the second call reached the endpoint before the record of
\* the first, and the two records differ.
C17_Witness ==
    /\ Len(forwarded) >= 2
    /\ forwarded[1] = 2
    /\ forwarded[2] = 1
    /\ calls[1].capture.provider # calls[2].capture.provider
    /\ arrived[1].data = calls[2].payload
    /\ arrived[1].outcome = "ok"
====
